---- MODULE Spec2Model ----
(***************************************************************************)
(* Model of the streaming decoder (Decoder<Writer>), the BinaryWriter and  *)
(* the ViterbiMatrix cell indexing of dnastore (src/src/decoder.h,         *)
(* src/src/viterbi.h).                                                     *)
(*                                                                         *)
(* trans.h (Machine, MachineState, MachineTransition, the symbol           *)
(* constants) and util/logger (Assert, Warn) are not part of the source    *)
(* under study; the few observations the decoder needs from them are       *)
(* modelled from the specification text and are marked as such.            *)
(***************************************************************************)
EXTENDS Integers, Sequences, FiniteSets, TLC

\* ------------------------------------------------------------------------
\* Bounds of the model
\* ------------------------------------------------------------------------
NStates == 3        \* states of a machine, numbered 0 .. NStates-1
MaxTrans == 2       \* transitions of a machine, over all states
MaxCalls == 2       \* operations called on a decoder after its construction
MaxStrLen == 2      \* length of a string handed to decodeString
MaxBits == 9        \* bit symbols written to a BinaryWriter
MaxBufLen == 2      \* length of a buffer handed to BinaryWriter::write
MaxDup == 2         \* largest maxDupLen of a ViterbiMatrix
MaxVitStates == 3   \* largest nStates of a ViterbiMatrix
MaxSeqLen == 2      \* largest seqLen of a ViterbiMatrix
SizeBits == 16      \* width given to size_t (64 in the build, scaled down)
IntBits == 8        \* width given to unsigned int (32 in the build, scaled down)

\* ------------------------------------------------------------------------
\* Symbols (trans.h)
\* ------------------------------------------------------------------------
MachineNull == "null"
MachineBit0 == "0"
MachineBit1 == "1"
MachineSOF == "SOF"
MachineEOF == "EOF"
ControlSymbols == {"ctl0"}
UnknownSymbol == "x"

isControl(c) == c \in ControlSymbols

\* toupper on the output symbols the model uses
toupper(c) == IF c = "a" THEN "A" ELSE c

States == 0 .. (NStates - 1)
InAlphabet == {MachineNull, MachineBit0, MachineBit1, UnknownSymbol}
OutAlphabet == {MachineNull, "A", "a"}
OutSymbols == {"A", "a"}

Transitions == [dest : States, in : InAlphabet, out : OutAlphabet]

inputEmpty(t) == t.in = MachineNull
outputEmpty(t) == t.out = MachineNull

\* ------------------------------------------------------------------------
\* The machines the decoder is run on: every machine of NStates states with
\* at most MaxTrans transitions (each state's transitions are an ordered
\* list) and any set of end states.
\* ------------------------------------------------------------------------
SrcTrans == [src : States, t : Transitions]

\* the states a transition list connects to the start state 0 in k steps
RECURSIVE Connected(_, _)
Connected(l, k) ==
  IF k = 0 THEN {0}
  ELSE LET R == Connected(l, k - 1)
       IN R \cup {l[i].t.dest : i \in {j \in DOMAIN l : l[j].src \in R}}

\* a transition list of a machine: grouped by source state, and without
\* transitions out of states that nothing connects to the start state (such
\* a transition is never looked at)
IsTransList(l) ==
  /\ \A i \in 1 .. Len(l) - 1 : l[i].src <= l[i + 1].src
  /\ \A i \in 1 .. Len(l) : l[i].src \in Connected(l, Len(l))

RECURSIVE TransOf(_, _)
TransOf(l, s) ==
  IF l = <<>> THEN <<>>
  ELSE IF Head(l).src = s THEN <<Head(l).t>> \o TransOf(Tail(l), s)
       ELSE TransOf(Tail(l), s)

MakeMachine(l, e) == [trans |-> [s \in States |-> TransOf(l, s)], end |-> e]


startState(m) == 0

\* MachineState observations
isEnd(m, s) == s \in m.end
emitsOutput(m, s) ==
  \A i \in 1 .. Len(m.trans[s]) : ~outputEmpty(m.trans[s][i])
exitsWithInput(m, s) ==
  \A i \in 1 .. Len(m.trans[s]) : ~inputEmpty(m.trans[s][i])

\* ------------------------------------------------------------------------
\* Decoder helpers
\* ------------------------------------------------------------------------
\* variant: every input symbol is taken as usable
isUsable_Any(t) == TRUE

isUsable(t) ==
  \/ t.in = MachineNull
  \/ t.in = MachineBit0 \/ t.in = MachineBit1
  \/ t.in = MachineEOF \/ t.in = MachineSOF
  \/ isControl(t.in)

\* a StateString (map<State,deque<InputSymbol>>) is a function whose domain
\* is the set of keys; the map iterates its keys in increasing order
EmptyMap == [s \in {} |-> <<>>]
Put(m, k, v) == [s \in (DOMAIN m) \cup {k} |-> IF s = k THEN v ELSE m[s]]

RECURSIVE SortedKeys(_)
SortedKeys(S) ==
  IF S = {} THEN <<>>
  ELSE LET k == CHOOSE x \in S : \A y \in S : x <= y
       IN <<k>> \o SortedKeys(S \ {k})

\* the (state, queue, transition) triples the two nested loops over
\* `current` and over the state's transitions visit, in visiting order
RECURSIVE StateWork(_, _, _, _)
StateWork(m, s, str, i) ==
  IF i > Len(m.trans[s]) THEN <<>>
  ELSE <<[state |-> s, str |-> str, t |-> m.trans[s][i]]>>
         \o StateWork(m, s, str, i + 1)

RECURSIVE WorkFrom(_, _, _)
WorkFrom(m, cur, keys) ==
  IF keys = <<>> THEN <<>>
  ELSE StateWork(m, Head(keys), cur[Head(keys)], 1)
         \o WorkFrom(m, cur, Tail(keys))

Work(m, cur) == WorkFrom(m, cur, SortedKeys(DOMAIN cur))

\* variant: the transition's input symbol is not queued
nextStrOf_NoPush(w) == w.str

\* variant: the input symbol is put at the front of the queue
nextStrOf_Prepend(w) == IF inputEmpty(w.t) THEN w.str ELSE <<w.t.in>> \o w.str

nextStrOf(w) == IF inputEmpty(w.t) THEN w.str ELSE Append(w.str, w.t.in)

\* ------------------------------------------------------------------------
\* Decoder::expand
\* ------------------------------------------------------------------------
\* variant: seen starts empty in every pass
SeenAfter_Forget(seen, cur) == cur

\* first loop of a pass: seen.insert(ss) for every entry of current
SeenAfter(seen, cur) ==
  [s \in (DOMAIN seen) \cup (DOMAIN cur) |->
     IF s \in DOMAIN seen THEN seen[s] ELSE cur[s]]

\* variant: every entry of current is copied to next
Kept_All(m, cur) == cur

\* first loop of a pass: the entries of current copied to next
Kept(m, cur) ==
  [s \in {x \in DOMAIN cur : isEnd(m, x) \/ emitsOutput(m, x)} |-> cur[s]]

\* second loop of a pass, over the work list in visiting order
RECURSIVE ExpandTrans(_, _, _, _)
ExpandTrans(work, seen, next, foundNew) ==
  IF work = <<>>
  THEN [ok |-> TRUE, next |-> next, foundNew |-> foundNew]
  ELSE LET w == Head(work)
           nextStr == nextStrOf(w)
           d == w.t.dest
       IN IF isUsable(w.t) /\ outputEmpty(w.t)
          THEN IF d \in DOMAIN seen
               THEN IF seen[d] = nextStr
                    THEN ExpandTrans(Tail(work), seen, next, foundNew)
                    ELSE [ok |-> FALSE, next |-> next, foundNew |-> foundNew]
               ELSE ExpandTrans(Tail(work), seen, Put(next, d, nextStr), TRUE)
          ELSE ExpandTrans(Tail(work), seen, next, foundNew)

\* the do-while loop; passes counts the passes made.  The loop is followed
\* for PassCap passes at most: a result with passes = PassCap stands for a
\* loop still running then.
PassCap == NStates + 2

RECURSIVE ExpandLoop(_, _, _, _)
ExpandLoop(m, cur, seen, passes) ==
  LET seen1 == SeenAfter(seen, cur)
      r == ExpandTrans(Work(m, cur), seen1, Kept(m, cur), FALSE)
  IN IF passes >= PassCap
     THEN [ok |-> FALSE, current |-> cur, passes |-> passes]
     ELSE IF ~r.ok
     THEN [ok |-> FALSE, current |-> cur, passes |-> passes + 1]
     ELSE IF r.foundNew
          THEN ExpandLoop(m, r.next, seen1, passes + 1)
          ELSE [ok |-> TRUE, current |-> r.next, passes |-> passes + 1]

expand(m, cur) == ExpandLoop(m, cur, EmptyMap, 0)

\* ------------------------------------------------------------------------
\* Decoder::flush, Decoder::shiftResolvedSymbols
\* ------------------------------------------------------------------------
\* variant: the queue written out is not cleared
flush_NoClear(cur, wr, s) ==
  [current |-> cur, written |-> wr \o cur[s]]

flush(cur, wr, s) ==
  [current |-> [cur EXCEPT ![s] = <<>>], written |-> wr \o cur[s]]

\* variant: the front symbols are not compared
RECURSIVE ScanQueues_NoCompare(_, _, _, _, _, _)
ScanQueues_NoCompare(cur, keys, foundQueue, queueNonempty, firstCharSame, firstChar) ==
  IF keys = <<>>
  THEN [foundQueue |-> foundQueue, queueNonempty |-> queueNonempty,
        firstCharSame |-> firstCharSame, firstChar |-> firstChar]
  ELSE LET q == cur[Head(keys)]
       IN IF ~foundQueue
          THEN ScanQueues_NoCompare(cur, Tail(keys), TRUE, q # <<>>, TRUE,
                                    IF q # <<>> THEN q[1] ELSE firstChar)
          ELSE IF queueNonempty /\ q = <<>>
               THEN [foundQueue |-> foundQueue, queueNonempty |-> queueNonempty,
                     firstCharSame |-> FALSE, firstChar |-> firstChar]
               ELSE ScanQueues_NoCompare(cur, Tail(keys), foundQueue,
                                         queueNonempty, firstCharSame, firstChar)

\* the for loop of shiftResolvedSymbols over the keys still to visit;
\* firstChar is only read when queueNonempty is set
RECURSIVE ScanQueues(_, _, _, _, _, _)
ScanQueues(cur, keys, foundQueue, queueNonempty, firstCharSame, firstChar) ==
  IF keys = <<>>
  THEN [foundQueue |-> foundQueue, queueNonempty |-> queueNonempty,
        firstCharSame |-> firstCharSame, firstChar |-> firstChar]
  ELSE LET q == cur[Head(keys)]
       IN IF ~foundQueue
          THEN ScanQueues(cur, Tail(keys), TRUE, q # <<>>, TRUE,
                          IF q # <<>> THEN q[1] ELSE firstChar)
          ELSE IF queueNonempty /\ (q = <<>> \/ firstChar # q[1])
               THEN [foundQueue |-> foundQueue, queueNonempty |-> queueNonempty,
                     firstCharSame |-> FALSE, firstChar |-> firstChar]
               ELSE ScanQueues(cur, Tail(keys), foundQueue, queueNonempty,
                               firstCharSame, firstChar)

RECURSIVE shiftResolvedSymbols(_, _)
shiftResolvedSymbols(cur, wr) ==
  LET r == ScanQueues(cur, SortedKeys(DOMAIN cur), FALSE, FALSE, FALSE,
                      MachineNull)
  IN IF r.foundQueue /\ r.queueNonempty /\ r.firstCharSame
     THEN shiftResolvedSymbols([s \in DOMAIN cur |-> Tail(cur[s])],
                               Append(wr, r.firstChar))
     ELSE [current |-> cur, written |-> wr]

\* ------------------------------------------------------------------------
\* Decoder::decodeSymbol, Decoder::decodeString
\* ------------------------------------------------------------------------
\* variant: a second queue for a destination replaces the first unchecked
RECURSIVE DecodeTrans_NoCheck(_, _, _)
DecodeTrans_NoCheck(work, outSym, next) ==
  IF work = <<>>
  THEN [ok |-> TRUE, next |-> next]
  ELSE LET w == Head(work)
           nextStr == nextStrOf(w)
           nextState == w.t.dest
       IN IF isUsable(w.t) /\ w.t.out = outSym
          THEN DecodeTrans_NoCheck(Tail(work), outSym,
                                   Put(next, nextState, nextStr))
          ELSE DecodeTrans_NoCheck(Tail(work), outSym, next)

\* the loop that builds next, over the work list in visiting order
RECURSIVE DecodeTrans(_, _, _)
DecodeTrans(work, outSym, next) ==
  IF work = <<>>
  THEN [ok |-> TRUE, next |-> next]
  ELSE LET w == Head(work)
           nextStr == nextStrOf(w)
           nextState == w.t.dest
       IN IF isUsable(w.t) /\ w.t.out = outSym
          THEN IF nextState \in DOMAIN next /\ next[nextState] # nextStr
               THEN [ok |-> FALSE, next |-> next]
               ELSE DecodeTrans(Tail(work), outSym,
                                Put(next, nextState, nextStr))
          ELSE DecodeTrans(Tail(work), outSym, next)

\* what follows expand() in decodeSymbol
Commit(m, cur, wr) ==
  IF Cardinality(DOMAIN cur) = 1
  THEN LET s == CHOOSE x \in DOMAIN cur : TRUE
       IN IF exitsWithInput(m, s)
          THEN flush(cur, wr, s)
          ELSE [current |-> cur, written |-> wr]
  ELSE shiftResolvedSymbols(cur, wr)

\* status is "ok", or the fatal error raised and the function (at) raising it;
\* stepped is the hypothesis set handed to expand(), passes the passes expand()
\* made, expanded the set expand() left, before anything is committed
decodeSymbol(m, cur, wr, outSym) ==
  LET r == DecodeTrans(Work(m, cur), outSym, EmptyMap)
  IN IF ~r.ok
     THEN [status |-> "QueueConflict", at |-> "decodeSymbol",
           current |-> cur, written |-> wr, expanded |-> cur, stepped |-> cur,
        passes |-> 0]
     ELSE IF DOMAIN r.next = {}
     THEN [status |-> "CannotDecode", at |-> "decodeSymbol",
           current |-> cur, written |-> wr, expanded |-> cur, stepped |-> cur,
        passes |-> 0]
     ELSE LET e == expand(m, r.next)
          IN IF ~e.ok
             THEN [status |-> "QueueConflict", at |-> "expand",
                   current |-> e.current, written |-> wr,
                   expanded |-> e.current,
                stepped |-> r.next, passes |-> e.passes]
             ELSE LET c == Commit(m, e.current, wr)
                  IN [status |-> "ok", at |-> "decodeSymbol",
                      current |-> c.current, written |-> c.written,
                      expanded |-> e.current,
                stepped |-> r.next, passes |-> e.passes]

RECURSIVE decodeString(_, _, _, _)
decodeString(m, cur, wr, seq) ==
  IF seq = <<>>
  THEN [status |-> "ok", at |-> "decodeString", current |-> cur,
        written |-> wr, expanded |-> cur, stepped |-> cur,
        passes |-> 0]
  ELSE LET r == decodeSymbol(m, cur, wr, toupper(Head(seq)))
       IN IF r.status # "ok" THEN r
          ELSE decodeString(m, r.current, r.written, Tail(seq))

\* ------------------------------------------------------------------------
\* Decoder::close
\* ------------------------------------------------------------------------
EndKeys(m, cur) == {s \in DOMAIN cur : isEnd(m, s)}

\* variant: the end-state hypothesis is flushed only when it is the only
\* hypothesis
close_SoleOnly(m, cur, wr) ==
  IF DOMAIN cur = {}
  THEN [status |-> "ok", at |-> "close", current |-> cur, written |-> wr,
        expanded |-> cur, stepped |-> cur,
        passes |-> 0, warned |-> FALSE]
  ELSE LET e == expand(m, cur)
           ssIter == EndKeys(m, e.current)
       IN IF ~e.ok
          THEN [status |-> "QueueConflict", at |-> "expand",
                current |-> e.current, written |-> wr,
                expanded |-> e.current,
                stepped |-> cur, passes |-> e.passes, warned |-> FALSE]
          ELSE IF Cardinality(ssIter) = 1 /\ Cardinality(DOMAIN e.current) = 1
          THEN [status |-> "ok", at |-> "close", current |-> EmptyMap,
                written |-> flush(e.current, wr,
                                  CHOOSE s \in ssIter : TRUE).written,
                expanded |-> e.current,
                stepped |-> cur, passes |-> e.passes, warned |-> FALSE]
          ELSE [status |-> "ok", at |-> "close", current |-> EmptyMap,
                written |-> wr, expanded |-> e.current,
                stepped |-> cur, passes |-> e.passes,
                warned |-> (Cardinality(ssIter) > 1
                              \/ Cardinality(DOMAIN e.current) > 1)]

\* variant: with several end-state hypotheses the first one is flushed
close_FirstEnd(m, cur, wr) ==
  IF DOMAIN cur = {}
  THEN [status |-> "ok", at |-> "close", current |-> cur, written |-> wr,
        expanded |-> cur, stepped |-> cur,
        passes |-> 0, warned |-> FALSE]
  ELSE LET e == expand(m, cur)
           ssIter == EndKeys(m, e.current)
       IN IF ~e.ok
          THEN [status |-> "QueueConflict", at |-> "expand",
                current |-> e.current, written |-> wr,
                expanded |-> e.current,
                stepped |-> cur, passes |-> e.passes, warned |-> FALSE]
          ELSE IF Cardinality(ssIter) >= 1
          THEN [status |-> "ok", at |-> "close", current |-> EmptyMap,
                written |-> flush(e.current, wr,
                                  CHOOSE s \in ssIter :
                                    \A t \in ssIter : s <= t).written,
                expanded |-> e.current,
                stepped |-> cur, passes |-> e.passes,
                warned |-> Cardinality(ssIter) > 1]
          ELSE [status |-> "ok", at |-> "close", current |-> EmptyMap,
                written |-> wr, expanded |-> e.current,
                stepped |-> cur, passes |-> e.passes,
                warned |-> Cardinality(DOMAIN e.current) > 1]

\* variant: current.clear() is left out
close_NoClear(m, cur, wr) ==
  IF DOMAIN cur = {}
  THEN [status |-> "ok", at |-> "close", current |-> cur, written |-> wr,
        expanded |-> cur, stepped |-> cur,
        passes |-> 0, warned |-> FALSE]
  ELSE LET e == expand(m, cur)
           ssIter == EndKeys(m, e.current)
       IN IF ~e.ok
          THEN [status |-> "QueueConflict", at |-> "expand",
                current |-> e.current, written |-> wr,
                expanded |-> e.current,
                stepped |-> cur, passes |-> e.passes, warned |-> FALSE]
          ELSE IF Cardinality(ssIter) = 1
          THEN LET f == flush(e.current, wr, CHOOSE s \in ssIter : TRUE)
               IN [status |-> "ok", at |-> "close", current |-> f.current,
                   written |-> f.written,
                   expanded |-> e.current,
                stepped |-> cur, passes |-> e.passes, warned |-> FALSE]
          ELSE [status |-> "ok", at |-> "close", current |-> e.current,
                written |-> wr, expanded |-> e.current,
                stepped |-> cur, passes |-> e.passes,
                warned |-> (Cardinality(ssIter) > 1
                              \/ Cardinality(DOMAIN e.current) > 1)]

\* warned: a "Decoder unresolved" warning was issued
close(m, cur, wr) ==
  IF DOMAIN cur = {}
  THEN [status |-> "ok", at |-> "close", current |-> cur, written |-> wr,
        expanded |-> cur, stepped |-> cur,
        passes |-> 0, warned |-> FALSE]
  ELSE LET e == expand(m, cur)
           ssIter == EndKeys(m, e.current)
       IN IF ~e.ok
          THEN [status |-> "QueueConflict", at |-> "expand",
                current |-> e.current, written |-> wr,
                expanded |-> e.current,
                stepped |-> cur, passes |-> e.passes, warned |-> FALSE]
          ELSE IF Cardinality(ssIter) = 1
          THEN [status |-> "ok", at |-> "close", current |-> EmptyMap,
                written |-> flush(e.current, wr,
                                  CHOOSE s \in ssIter : TRUE).written,
                expanded |-> e.current,
                stepped |-> cur, passes |-> e.passes, warned |-> FALSE]
          ELSE [status |-> "ok", at |-> "close", current |-> EmptyMap,
                written |-> wr, expanded |-> e.current,
                stepped |-> cur, passes |-> e.passes,
                warned |-> (Cardinality(ssIter) > 1
                              \/ Cardinality(DOMAIN e.current) > 1)]

\* ------------------------------------------------------------------------
\* BinaryWriter
\* ------------------------------------------------------------------------
RECURSIVE Pow2(_)
Pow2(n) == IF n = 0 THEN 1 ELSE 2 * Pow2(n - 1)

\* variant: the two bit orders are exchanged
RECURSIVE FlushBits_Swapped(_, _, _, _)
FlushBits_Swapped(buf, msb, n, c) ==
  IF n >= Len(buf) THEN c
  ELSE FlushBits_Swapped(buf, msb, n + 1,
                 IF buf[n + 1] /\ (c \div Pow2(IF msb THEN n ELSE 7 - n)) % 2 = 0
                 THEN (c + Pow2(IF msb THEN n ELSE 7 - n)) % 256
                 ELSE c)

\* the loop of BinaryWriter::flush from index n (0-based) on; c is an
\* unsigned char
RECURSIVE FlushBits(_, _, _, _)
FlushBits(buf, msb, n, c) ==
  IF n >= Len(buf) THEN c
  ELSE FlushBits(buf, msb, n + 1,
                 IF buf[n + 1] /\ (c \div Pow2(IF msb THEN 7 - n ELSE n)) % 2 = 0
                 THEN (c + Pow2(IF msb THEN 7 - n ELSE n)) % 256
                 ELSE c)

\* BinaryWriter::flush: the byte sent to outs; outbuf is cleared
bwFlush(buf, msb) == FlushBits(buf, msb, 0, 0)

\* variant: flush() is called when seven bits are buffered
RECURSIVE bwWrite_Flush7(_, _, _, _)
bwWrite_Flush7(buf, msb, ob, bytes) ==
  IF buf = <<>> THEN [outbuf |-> ob, bytes |-> bytes]
  ELSE LET c == Head(buf)
       IN IF c = MachineBit0 \/ c = MachineBit1
          THEN LET ob1 == Append(ob, c = MachineBit1)
               IN IF Len(ob1) = 7
                  THEN bwWrite_Flush7(Tail(buf), msb, <<>>,
                                      Append(bytes, bwFlush(ob1, msb)))
                  ELSE bwWrite_Flush7(Tail(buf), msb, ob1, bytes)
          ELSE bwWrite_Flush7(Tail(buf), msb, ob, bytes)

\* variant: a byte that is no bit symbol and no control token counts as a 0
RECURSIVE bwWrite_UnknownAsZero(_, _, _, _)
bwWrite_UnknownAsZero(buf, msb, ob, bytes) ==
  IF buf = <<>> THEN [outbuf |-> ob, bytes |-> bytes]
  ELSE LET c == Head(buf)
       IN IF c = MachineBit0 \/ c = MachineBit1 \/ c = UnknownSymbol
          THEN LET ob1 == Append(ob, c = MachineBit1)
               IN IF Len(ob1) = 8
                  THEN bwWrite_UnknownAsZero(Tail(buf), msb, <<>>,
                                             Append(bytes, bwFlush(ob1, msb)))
                  ELSE bwWrite_UnknownAsZero(Tail(buf), msb, ob1, bytes)
          ELSE bwWrite_UnknownAsZero(Tail(buf), msb, ob, bytes)

\* BinaryWriter::write: the loop over buf
RECURSIVE bwWrite(_, _, _, _)
bwWrite(buf, msb, ob, bytes) ==
  IF buf = <<>> THEN [outbuf |-> ob, bytes |-> bytes]
  ELSE LET c == Head(buf)
       IN IF c = MachineBit0 \/ c = MachineBit1
          THEN LET ob1 == Append(ob, c = MachineBit1)
               IN IF Len(ob1) = 8
                  THEN bwWrite(Tail(buf), msb, <<>>,
                               Append(bytes, bwFlush(ob1, msb)))
                  ELSE bwWrite(Tail(buf), msb, ob1, bytes)
          ELSE bwWrite(Tail(buf), msb, ob, bytes)

\* ------------------------------------------------------------------------
\* State
\* ------------------------------------------------------------------------
VARIABLES
  machine,   \* Decoder::machine
  current,   \* Decoder::current
  written,   \* what outs.write has received, in order
  pc,        \* "new", "open", "closed", "destroyed" or "aborted" (fatal error)
  calls,     \* the operations called since construction, with their arguments
  last,      \* the last operation: its outcome and the state it started from
  msb0,      \* BinaryWriter::msb0
  outbuf,    \* BinaryWriter::outbuf
  outBytes,  \* the bytes BinaryWriter sent to its ostream, in order
  bwBits,    \* the bit symbols handed to BinaryWriter::write so far, in order
  bwPc,      \* "none" (no writer), "live" or "destroyed"
  bwLast,    \* the last write call: its bit symbols, the writer it started from
  maxDupLen, \* ViterbiMatrix::maxDupLen
  nStates,   \* ViterbiMatrix::nStates
  seqLen,    \* ViterbiMatrix::seqLen
  posBits,   \* the width of type Pos in this build
  vitLast    \* the last index function called: its arguments and result

decVars == <<machine, current, written, pc, calls, last>>
bwVars == <<msb0, outbuf, outBytes, bwBits, bwPc, bwLast>>
vitVars == <<maxDupLen, nStates, seqLen, posBits, vitLast>>
vars == <<machine, current, written, pc, calls, last,
          msb0, outbuf, outBytes, bwBits, bwPc, bwLast,
          maxDupLen, nStates, seqLen, posBits, vitLast>>

NoWrite == [called |-> FALSE, bits |-> <<>>, outbuf |-> <<>>, bytes |-> <<>>]
NoIndex == [fn |-> "none", arg |-> <<>>, result |-> 0]

\* no ViterbiMatrix exists
NoMatrix ==
  /\ maxDupLen = 0
  /\ nStates = 0
  /\ seqLen = 0
  /\ posBits = 0
  /\ vitLast = NoIndex

NoCall == [op |-> "none", arg |-> <<>>, status |-> "ok", at |-> "none",
           pre |-> EmptyMap, preWritten |-> <<>>, expanded |-> EmptyMap,
           stepped |-> EmptyMap, passes |-> 0, warned |-> FALSE]

Record(op, arg, r, warned) ==
  [op |-> op, arg |-> arg, status |-> r.status, at |-> r.at,
   pre |-> current, preWritten |-> written, expanded |-> r.expanded,
   stepped |-> r.stepped, passes |-> r.passes, warned |-> warned]

Strings == UNION {[1 .. n -> OutSymbols] : n \in 0 .. MaxStrLen}

Init ==
  /\ \E n \in 0 .. MaxTrans : \E l \in [1 .. n -> SrcTrans] :
       \E e \in SUBSET States :
         /\ IsTransList(l)
         /\ machine = MakeMachine(l, e)
  /\ current = EmptyMap
  /\ written = <<>>
  /\ pc = "new"
  /\ calls = <<>>
  /\ last = NoCall
  /\ msb0 = FALSE
  /\ outbuf = <<>>
  /\ outBytes = <<>>
  /\ bwBits = <<>>
  /\ bwPc = "none"
  /\ bwLast = NoWrite
  /\ NoMatrix

\* Decoder::Decoder
Construct ==
  /\ pc = "new"
  /\ LET e == expand(machine, Put(EmptyMap, startState(machine), <<>>))
     IN /\ current' = e.current
        /\ pc' = IF e.ok THEN "open" ELSE "aborted"
        /\ last' = [op |-> "construct", arg |-> <<>>,
                    status |-> IF e.ok THEN "ok" ELSE "QueueConflict",
                    at |-> IF e.ok THEN "construct" ELSE "expand",
                    pre |-> Put(EmptyMap, startState(machine), <<>>),
                    preWritten |-> written, expanded |-> e.current,
                    stepped |-> Put(EmptyMap, startState(machine), <<>>),
                    passes |-> e.passes, warned |-> FALSE]
  /\ UNCHANGED <<machine, written, calls>>
  /\ UNCHANGED bwVars
  /\ UNCHANGED vitVars

Callable == pc \in {"open", "closed"} /\ Len(calls) < MaxCalls

DecodeSymbol(outSym) ==
  /\ Callable
  /\ LET r == decodeSymbol(machine, current, written, outSym)
     IN /\ current' = r.current
        /\ written' = r.written
        /\ pc' = IF r.status = "ok" THEN pc ELSE "aborted"
        /\ last' = Record("decodeSymbol", <<outSym>>, r, FALSE)
  /\ calls' = Append(calls, [op |-> "decodeSymbol", arg |-> <<outSym>>])
  /\ UNCHANGED machine
  /\ UNCHANGED bwVars
  /\ UNCHANGED vitVars

DecodeString(seq) ==
  /\ Callable
  /\ LET r == decodeString(machine, current, written, seq)
     IN /\ current' = r.current
        /\ written' = r.written
        /\ pc' = IF r.status = "ok" THEN pc ELSE "aborted"
        /\ last' = Record("decodeString", seq, r, FALSE)
  /\ calls' = Append(calls, [op |-> "decodeString", arg |-> seq])
  /\ UNCHANGED machine
  /\ UNCHANGED bwVars
  /\ UNCHANGED vitVars

Close ==
  /\ Callable
  /\ LET r == close(machine, current, written)
     IN /\ current' = r.current
        /\ written' = r.written
        /\ pc' = IF r.status = "ok" THEN "closed" ELSE "aborted"
        /\ last' = Record("close", <<>>, r, r.warned)
  /\ calls' = Append(calls, [op |-> "close", arg |-> <<>>])
  /\ UNCHANGED machine
  /\ UNCHANGED bwVars
  /\ UNCHANGED vitVars

\* Decoder::~Decoder
Destroy ==
  /\ pc \in {"open", "closed"}
  /\ LET r == close(machine, current, written)
     IN /\ current' = r.current
        /\ written' = r.written
        /\ pc' = IF r.status = "ok" THEN "destroyed" ELSE "aborted"
        /\ last' = Record("destroy", <<>>, r, r.warned)
  /\ calls' = Append(calls, [op |-> "destroy", arg |-> <<>>])
  /\ UNCHANGED machine
  /\ UNCHANGED bwVars
  /\ UNCHANGED vitVars

Next ==
  \/ Construct
  \/ \E outSym \in OutSymbols : DecodeSymbol(outSym)
  \/ \E seq \in Strings : DecodeString(seq)
  \/ Close
  \/ Destroy

Spec == Init /\ [][Next]_vars

\* ------------------------------------------------------------------------
\* A BinaryWriter on its own: write calls, then the destructor
\* ------------------------------------------------------------------------
BWAlphabet == {MachineBit0, MachineBit1, MachineSOF, MachineEOF,
               UnknownSymbol} \cup ControlSymbols
BWBuffers == UNION {[1 .. n -> BWAlphabet] : n \in 1 .. MaxBufLen}
BitsOf(buf) == SelectSeq(buf, LAMBDA c : c = MachineBit0 \/ c = MachineBit1)

NoMachine == [trans |-> [s \in States |-> <<>>], end |-> {}]

\* the constructor leaves msb0 false; msb0 is a public member the owner may
\* set before writing
InitBW ==
  /\ machine = NoMachine
  /\ current = EmptyMap
  /\ written = <<>>
  /\ pc = "none"
  /\ calls = <<>>
  /\ last = NoCall
  /\ msb0 \in BOOLEAN
  /\ outbuf = <<>>
  /\ outBytes = <<>>
  /\ bwBits = <<>>
  /\ bwPc = "live"
  /\ bwLast = NoWrite
  /\ NoMatrix

BWWrite(buf) ==
  /\ bwPc = "live"
  /\ Len(bwBits) + Len(BitsOf(buf)) <= MaxBits
  /\ LET r == bwWrite(buf, msb0, outbuf, outBytes)
     IN /\ outbuf' = r.outbuf
        /\ outBytes' = r.bytes
  /\ bwBits' = bwBits \o BitsOf(buf)
  /\ bwLast' = [called |-> TRUE, bits |-> BitsOf(buf), outbuf |-> outbuf,
                bytes |-> outBytes]
  /\ UNCHANGED <<msb0, bwPc>>
  /\ UNCHANGED decVars
  /\ UNCHANGED vitVars

\* BinaryWriter::~BinaryWriter: the bits left over are reversed for the
\* warning when msb0 is false, and dropped with the writer
BWDestroy ==
  /\ bwPc = "live"
  /\ bwPc' = "destroyed"
  /\ outbuf' = <<>>
  /\ UNCHANGED <<msb0, outBytes, bwBits, bwLast>>
  /\ UNCHANGED decVars
  /\ UNCHANGED vitVars

NextBW ==
  \/ \E buf \in BWBuffers : BWWrite(buf)
  \/ BWDestroy

SpecBW == InitBW /\ [][NextBW]_vars

\* ------------------------------------------------------------------------
\* ViterbiMatrix: the index functions of the lattice
\* ------------------------------------------------------------------------
\* size_t arithmetic wraps at SizeMod.  Type Pos is unsigned and as wide as
\* unsigned int or as size_t, depending on the build.
SizeMod == 2 ^ SizeBits
PosWidths == {IntBits, SizeBits}
ToPos(x) == x % (2 ^ posBits)

nCells == ((maxDupLen + 2) * nStates * (seqLen + 1)) % SizeMod

sMutStateIndex == 0
dMutStateIndex == 1
tMutStateIndex(dupIdx) == (2 + dupIdx) % (2 ^ posBits)
tMutStateDupIdx(mutStateIndex) == ToPos((mutStateIndex - 2) % SizeMod)

\* variant: the upper limit is tMutStateIndex(maxDupLen)
isTMutStateIndex_Inclusive(mutStateIndex) ==
  /\ mutStateIndex >= tMutStateIndex(0)
  /\ mutStateIndex <= tMutStateIndex(ToPos(maxDupLen))

isTMutStateIndex(mutStateIndex) ==
  /\ mutStateIndex >= tMutStateIndex(0)
  /\ mutStateIndex <= tMutStateIndex(ToPos((maxDupLen - 1) % SizeMod))

\* variant: state and pos are exchanged
cellIndex_StateMajor(state, pos, mutState) ==
  ((maxDupLen + 2) * (state * nStates + pos) + mutState) % SizeMod

cellIndex(state, pos, mutState) ==
  ((maxDupLen + 2) * (pos * nStates + state) + mutState) % SizeMod

\* a matrix of any dimensions within the bounds; no decoder, no writer
InitVit ==
  /\ machine = NoMachine
  /\ current = EmptyMap
  /\ written = <<>>
  /\ pc = "none"
  /\ calls = <<>>
  /\ last = NoCall
  /\ msb0 = FALSE
  /\ outbuf = <<>>
  /\ outBytes = <<>>
  /\ bwBits = <<>>
  /\ bwPc = "none"
  /\ bwLast = NoWrite
  /\ maxDupLen \in 0 .. MaxDup
  /\ nStates \in 1 .. MaxVitStates
  /\ seqLen \in 0 .. MaxSeqLen
  /\ posBits \in PosWidths
  /\ vitLast = NoIndex

VitCall(fn, arg, result) ==
  /\ vitLast' = [fn |-> fn, arg |-> arg, result |-> result]
  /\ UNCHANGED <<maxDupLen, nStates, seqLen, posBits>>
  /\ UNCHANGED decVars
  /\ UNCHANGED bwVars

SMutStateIndex == VitCall("sMutStateIndex", <<>>, sMutStateIndex)
DMutStateIndex == VitCall("dMutStateIndex", <<>>, dMutStateIndex)
TMutStateIndex(dupIdx) ==
  VitCall("tMutStateIndex", <<dupIdx>>, tMutStateIndex(dupIdx))
TMutStateDupIdx(m) ==
  VitCall("tMutStateDupIdx", <<m>>, tMutStateDupIdx(m))
IsTMutStateIndex(m) ==
  VitCall("isTMutStateIndex", <<m>>, isTMutStateIndex(m))
CellIndex(state, pos, mutState) ==
  VitCall("cellIndex", <<state, pos, mutState>>,
          cellIndex(state, pos, mutState))

\* the mutator-state indices handed to the functions: those of the lattice,
\* the two after them, and the largest size_t
MutStateArgs == (0 .. (maxDupLen + 3)) \cup {SizeMod - 1}

NextVit ==
  \/ SMutStateIndex
  \/ DMutStateIndex
  \/ \E dupIdx \in 0 .. maxDupLen : TMutStateIndex(dupIdx)
  \/ \E m \in 2 .. (maxDupLen + 3) : TMutStateDupIdx(m)
  \/ \E m \in MutStateArgs : IsTMutStateIndex(m)
  \/ \E state \in 0 .. (nStates - 1) : \E pos \in 0 .. seqLen :
       \E mutState \in 0 .. (maxDupLen + 1) : CellIndex(state, pos, mutState)

SpecVit == InitVit /\ [][NextVit]_vars

\* ========================================================================
\* Properties
\* ========================================================================
\* the input symbols Decoder::isUsable accepts (listed, not computed)
UsableInputs == {MachineNull, MachineBit0, MachineBit1, MachineEOF,
                 MachineSOF} \cup ControlSymbols

AllInputs == InAlphabet \cup UsableInputs

\* Paths of a machine.  A configuration <<s, i, w>> says: some path from the
\* start state to s has emitted the first i symbols of o and consumed the
\* input string w.  PathStep adds the configurations one transition further,
\* over transitions whose input symbol is in `ins` and with |w| <= maxLen.
PathStep(m, o, ins, maxLen, R) ==
  R \cup
  { <<t.dest,
      IF t.out = MachineNull THEN c[2] ELSE c[2] + 1,
      IF t.in = MachineNull THEN c[3] ELSE Append(c[3], t.in)>> :
    <<c, t>> \in
      { ct \in R \X Transitions :
          /\ \E k \in 1 .. Len(m.trans[ct[1][1]]) :
                m.trans[ct[1][1]][k] = ct[2]
          /\ ct[2].in \in ins
          /\ \/ ct[2].out = MachineNull
             \/ /\ ct[1][2] < Len(o)
                /\ o[ct[1][2] + 1] = ct[2].out
          /\ (ct[2].in # MachineNull => Len(ct[1][3]) < maxLen) } }

RECURSIVE PathConfigs(_, _, _, _, _)
PathConfigs(m, o, ins, maxLen, R) ==
  LET R1 == PathStep(m, o, ins, maxLen, R)
  IN IF R1 = R THEN R ELSE PathConfigs(m, o, ins, maxLen, R1)

\* the input strings (of at most maxLen symbols) of the paths from the start
\* state to an end state that emit exactly o
AcceptedInputs(m, o, ins, maxLen) ==
  { c[3] : c \in { x \in PathConfigs(m, o, ins, maxLen,
                                     {<<startState(m), 0, <<>>>>}) :
                     x[1] \in m.end /\ x[2] = Len(o) } }

Upper(seq) == [i \in 1 .. Len(seq) |-> toupper(seq[i])]

\* construct; decodeString(o); close() has run to the end
RoundTripDone ==
  /\ Len(calls) = 2
  /\ calls[1].op = "decodeString"
  /\ calls[2].op = "close"
  /\ pc = "closed"

InLenBound == MaxStrLen + NStates

\* construct; decodeString(o); close() was called (and ran to the end or
\* stopped at a fatal error)
RoundTripTried ==
  /\ Len(calls) >= 1
  /\ calls[1].op = "decodeString"
  /\ \/ Len(calls) = 2 /\ calls[2].op = "close"
     \/ Len(calls) = 1 /\ pc = "aborted"

SharedFront(cur) ==
  /\ DOMAIN cur # {}
  /\ \A s \in DOMAIN cur : cur[s] # <<>>
  /\ \A s, t \in DOMAIN cur : cur[s][1] = cur[t][1]

\* C2 as stated: after a decodeSymbol that returns normally, no input symbol
\* that is the front of every surviving queue is left unwritten.
C2_CommittedWhenUnambiguous ==
  (last.op = "decodeSymbol" /\ last.status = "ok") => ~SharedFront(current)

\* C3 as stated: when shiftResolvedSymbols has run (decodeSymbol returned
\* normally with other than one hypothesis), it has not stopped while some
\* queue is non-empty and all non-empty queues begin with the same symbol.
NonEmptyAgree(cur) ==
  /\ \E s \in DOMAIN cur : cur[s] # <<>>
  /\ \A s, t \in DOMAIN cur :
       (cur[s] # <<>> /\ cur[t] # <<>>) => cur[s][1] = cur[t][1]

ShiftRan ==
  /\ last.op = "decodeSymbol"
  /\ last.status = "ok"
  /\ Cardinality(DOMAIN last.expanded) # 1

C3_ShiftAsStated == ShiftRan => ~NonEmptyAgree(current)

\* the length of the longest prefix all queues of cur have in common (an empty
\* queue makes it 0)
MinLen(cur) ==
  CHOOSE n \in 0 .. InLenBound + MaxCalls * MaxStrLen :
    /\ \A s \in DOMAIN cur : Len(cur[s]) >= n
    /\ \/ \E s \in DOMAIN cur : Len(cur[s]) = n
       \/ DOMAIN cur = {} /\ n = 0

CommonLen(cur) ==
  CHOOSE n \in 0 .. MinLen(cur) :
    /\ \A s, t \in DOMAIN cur : SubSeq(cur[s], 1, n) = SubSeq(cur[t], 1, n)
    /\ \/ n = MinLen(cur)
       \/ \E s, t \in DOMAIN cur : cur[s][n + 1] # cur[t][n + 1]

\* C3 (amended): shiftResolvedSymbols writes a symbol if and only if every
\* queue of the hypothesis set is non-empty and begins with it (an empty
\* queue blocks the commit): it writes the longest common prefix of all
\* queues, in order, and removes it from every queue.
C3_Shift ==
  ShiftRan =>
    LET n == CommonLen(last.expanded)
    IN /\ DOMAIN current = DOMAIN last.expanded
       /\ \A s \in DOMAIN current :
            /\ last.expanded[s] = SubSeq(written, Len(last.preWritten) + 1,
                                         Len(written)) \o current[s]
            /\ Len(last.expanded[s]) = n + Len(current[s])
       /\ Len(written) = Len(last.preWritten) + n
       /\ SubSeq(written, 1, Len(last.preWritten)) = last.preWritten

\* shiftResolvedSymbols wrote a symbol and stopped at an empty queue next to
\* a non-empty one
C3_Witness ==
  /\ ShiftRan
  /\ Len(written) > Len(last.preWritten)
  /\ \E s, t \in DOMAIN current : current[s] = <<>> /\ current[t] # <<>>

\* the (state, queue) pairs that chains of at most k usable null-output
\* transitions reach from the hypotheses of cur
RECURSIVE NullReach(_, _, _)
NullReach(m, cur, k) ==
  IF k = 0 THEN { <<s, cur[s]>> : s \in DOMAIN cur }
  ELSE LET R == NullReach(m, cur, k - 1)
       IN R \cup
          { <<m.trans[p[1]][i].dest,
              IF m.trans[p[1]][i].in = MachineNull THEN p[2]
              ELSE Append(p[2], m.trans[p[1]][i].in)>> :
            <<p, i>> \in
              { pi \in R \X (1 .. MaxTrans) :
                  /\ pi[2] <= Len(m.trans[pi[1][1]])
                  /\ m.trans[pi[1][1]][pi[2]].in \in UsableInputs
                  /\ m.trans[pi[1][1]][pi[2]].out = MachineNull } }

NullConflict(m, cur) ==
  \E p, q \in NullReach(m, cur, NStates) : p[1] = q[1] /\ p[2] # q[2]

\* C4 as stated: expand (here: the one the constructor runs) does not return
\* normally when two null-transition paths give one state two different
\* queues.
C4_ExpandConflictFails ==
  (last.op = "construct" /\ last.status = "ok") =>
    ~NullConflict(machine, last.pre)

\* two usable transitions with output o, out of hypotheses of cur, lead to
\* one state with different resulting queues
QueueAfter(q, t) == IF t.in = MachineNull THEN q ELSE q \o <<t.in>>

DecodeConflict(m, cur, o) ==
  \E s1, s2 \in DOMAIN cur :
    \E i \in 1 .. Len(m.trans[s1]), j \in 1 .. Len(m.trans[s2]) :
      LET t1 == m.trans[s1][i]
          t2 == m.trans[s2][j]
      IN /\ t1.in \in UsableInputs /\ t2.in \in UsableInputs
         /\ t1.out = o /\ t2.out = o
         /\ t1.dest = t2.dest
         /\ QueueAfter(cur[s1], t1) # QueueAfter(cur[s2], t2)

\* C5: decodeSymbol(o) fails with a queue conflict whenever two usable
\* transitions with output o out of the current hypotheses reach one state
\* with different resulting queues; on that failure nothing has been written
\* and the hypothesis set is the one the call started with.
C5_DecodeConflict ==
  last.op = "decodeSymbol" =>
    /\ DecodeConflict(machine, last.pre, last.arg[1]) =>
         (last.status = "QueueConflict" /\ last.at = "decodeSymbol"
            /\ pc = "aborted")
    /\ (last.status = "QueueConflict" /\ last.at = "decodeSymbol") =>
         (written = last.preWritten /\ current = last.pre)

\* decodeSymbol stopped at a conflict between the queues two transitions
\* with different input bits give one state
C5_Witness ==
  /\ last.op = "decodeSymbol"
  /\ DecodeConflict(machine, last.pre, last.arg[1])
  /\ last.status = "QueueConflict"
  /\ last.at = "decodeSymbol"
  /\ \E s \in DOMAIN last.pre :
       /\ Len(machine.trans[s]) = 2
       /\ machine.trans[s][1].in = MachineBit0
       /\ machine.trans[s][2].in = MachineBit1

NoMatch(m, cur, o) ==
  \A s \in DOMAIN cur :
    \A i \in 1 .. Len(m.trans[s]) :
      ~(m.trans[s][i].in \in UsableInputs /\ m.trans[s][i].out = o)

\* C6: decodeSymbol(o) fails with CannotDecode if and only if no state of the
\* current hypotheses has a usable transition with output o; on that failure
\* nothing is written and the hypothesis set is left as it was.
C6_CannotDecode ==
  last.op = "decodeSymbol" =>
    /\ (last.status = "CannotDecode") <=>
         NoMatch(machine, last.pre, last.arg[1])
    /\ last.status = "CannotDecode" =>
         (written = last.preWritten /\ current = last.pre /\ pc = "aborted")

\* the failing hypothesis has a pending queue and a transition that is
\* passed over (other output, or an input symbol that is not usable)
C6_Witness ==
  /\ last.op = "decodeSymbol"
  /\ last.status = "CannotDecode"
  /\ \E s \in DOMAIN last.pre :
       /\ last.pre[s] # <<>>
       /\ \E i \in 1 .. Len(machine.trans[s]) :
            machine.trans[s][i].out = last.arg[1]

CloseReturned == last.op \in {"close", "destroy"} /\ last.status = "ok"

\* C7: close() that finds exactly one end-state hypothesis after expand writes
\* that hypothesis's whole queue, in order and once, whatever other hypotheses
\* there are.
C7_CloseFlushesEnd ==
  (CloseReturned /\ Cardinality(EndKeys(machine, last.expanded)) = 1) =>
    written = last.preWritten
                \o last.expanded[CHOOSE s \in EndKeys(machine, last.expanded) :
                                   TRUE]

C7_Witness ==
  /\ CloseReturned
  /\ Cardinality(EndKeys(machine, last.expanded)) = 1
  /\ Cardinality(DOMAIN last.expanded) > 1
  /\ \E s \in EndKeys(machine, last.expanded) : Len(last.expanded[s]) >= 1
  /\ last.preWritten # <<>>

\* C8: close() that finds several end-state hypotheses, or none, after expand
\* writes nothing, returns normally and leaves the hypothesis set empty; it
\* warns exactly when several hypotheses remained.
C8_CloseUnresolved ==
  (CloseReturned /\ Cardinality(EndKeys(machine, last.expanded)) # 1) =>
    /\ written = last.preWritten
    /\ current = EmptyMap
    /\ pc \in {"closed", "destroyed"}
    /\ last.warned <=> (Cardinality(DOMAIN last.expanded) > 1)

C8_Witness ==
  /\ CloseReturned
  /\ Cardinality(EndKeys(machine, last.expanded)) > 1
  /\ \A s \in DOMAIN last.expanded : last.expanded[s] # <<>>
  /\ last.warned

\* an earlier close() returned normally
ClosedEarlier ==
  \E i \in 1 .. Len(calls) - 1 : calls[i].op = "close"

\* C9 as stated: every operation after close() fails.
C9_AllFailAfterClose == ClosedEarlier => last.status # "ok"

\* C9 (amended): after close() the hypothesis set is empty and stays empty
\* and nothing more is written; every later decodeSymbol, and every later
\* decodeString of a non-empty string, fails with CannotDecode, while a later
\* close(), the destructor and decodeString("") return normally and do
\* nothing.
C9_TerminalAfterClose ==
  /\ (pc \in {"closed", "destroyed"}) => current = EmptyMap
  /\ ClosedEarlier =>
       /\ current = EmptyMap
       /\ written = last.preWritten
       /\ (last.op = "decodeSymbol"
             \/ (last.op = "decodeString" /\ last.arg # <<>>)) =>
            (last.status = "CannotDecode" /\ pc = "aborted")
       /\ (last.op \in {"close", "destroy"}
             \/ (last.op = "decodeString" /\ last.arg = <<>>)) =>
            (last.status = "ok" /\ ~last.warned)

\* decodeSymbol after a close() that flushed a queue
C9_Witness ==
  /\ ClosedEarlier
  /\ last.op = "decodeSymbol"
  /\ written # <<>>
  /\ \E s \in DOMAIN machine.trans :
       \E i \in 1 .. Len(machine.trans[s]) :
         machine.trans[s][i].out = last.arg[1]

\* the value of the k-th group of eight bits written, bit n of the group
\* weighing 2^n (msb FALSE) or 2^(7-n) (msb TRUE)
Weights == <<1, 2, 4, 8, 16, 32, 64, 128>>
BitAt(k, n) == IF bwBits[8 * (k - 1) + n + 1] = MachineBit1 THEN 1 ELSE 0
RECURSIVE GroupSum(_, _, _)
GroupSum(k, msb, n) ==
  IF n > 7 THEN 0
  ELSE BitAt(k, n) * Weights[(IF msb THEN 7 - n ELSE n) + 1]
         + GroupSum(k, msb, n + 1)

ExampleBits == <<"1", "0", "1", "1", "0", "0", "0", "1">>

\* C10: one byte is emitted per full group of eight bits, with bit n of the
\* group (arrival order) at position n when msb0 is false and 7 - n when msb0
\* is true; bits 1,0,1,1,0,0,0,1 give 0x8D (141) resp. 0xB1 (177).
C10_BitOrder ==
  /\ Len(outBytes) = Len(bwBits) \div 8
  /\ \A k \in 1 .. Len(outBytes) : outBytes[k] = GroupSum(k, msb0, 0)
  /\ (Len(bwBits) >= 8 /\ SubSeq(bwBits, 1, 8) = ExampleBits) =>
       outBytes[1] = IF msb0 THEN 177 ELSE 141

C10_Witness ==
  /\ msb0
  /\ Len(bwBits) = 8
  /\ bwBits = ExampleBits
  /\ outBytes = <<177>>
  /\ outbuf = <<>>

\* the last n of the bit symbols written, as BinaryWriter buffers them
LastBits(n) ==
  [i \in 1 .. n |-> bwBits[Len(bwBits) - n + i] = MachineBit1]

\* C11: after write calls holding k bit symbols in all, exactly k div 8 bytes
\* have been emitted and the buffer holds the last k mod 8 bits, fewer than
\* eight; the destructor emits nothing, so a partial byte is dropped.
C11_Accumulate ==
  /\ Len(outBytes) = Len(bwBits) \div 8
  /\ bwPc = "live" =>
       /\ Len(outbuf) < 8
       /\ outbuf = LastBits(Len(bwBits) % 8)
  /\ bwPc = "destroyed" => outbuf = <<>>

C11_Witness ==
  /\ bwPc = "destroyed"
  /\ Len(bwBits) = 9
  /\ Len(outBytes) = 1

\* the last write call held no bit symbol: its buffer, which is not empty,
\* held control tokens, SOF, EOF or unknown bytes only
WroteNoBits == bwLast.called /\ bwLast.bits = <<>>

\* C12: a write of control tokens, SOF, EOF and unknown bytes only leaves the
\* bit buffer and the emitted bytes as they were; the emitted bytes and the
\* buffered bits are those of the bit symbols alone, written in one call.
C12_NonBitsIgnored ==
  /\ (WroteNoBits /\ bwPc = "live") =>
       /\ outbuf = bwLast.outbuf
       /\ outBytes = bwLast.bytes
  /\ outBytes = bwWrite(bwBits, msb0, <<>>, <<>>).bytes
  /\ bwPc = "live" => outbuf = bwWrite(bwBits, msb0, <<>>, <<>>).outbuf

C12_Witness ==
  /\ bwPc = "live"
  /\ WroteNoBits
  /\ Len(bwLast.outbuf) = 1
  /\ outbuf = bwLast.outbuf
  /\ Len(outBytes) = 1

\* the cells of the lattice
Triples ==
  (0 .. (nStates - 1)) \X (0 .. seqLen) \X (0 .. (maxDupLen + 1))

\* C13: cellIndex maps the triples (state, pos, mutState) one-to-one onto
\* 0 .. nCells-1, where nCells = (maxDupLen+2) * nStates * (seqLen+1), and
\* cells that differ by one in mutState are adjacent.
C13_CellIndexBijection ==
  /\ nCells = (maxDupLen + 2) * nStates * (seqLen + 1)
  /\ \A t, u \in Triples :
       cellIndex(t[1], t[2], t[3]) = cellIndex(u[1], u[2], u[3]) => t = u
  /\ {cellIndex(t[1], t[2], t[3]) : t \in Triples} = 0 .. (nCells - 1)
  /\ \A t \in Triples :
       t[3] <= maxDupLen =>
         cellIndex(t[1], t[2], t[3] + 1) = cellIndex(t[1], t[2], t[3]) + 1
  /\ vitLast.fn = "cellIndex" => vitLast.result \in 0 .. (nCells - 1)

C13_Witness ==
  /\ maxDupLen = 2
  /\ nStates = 3
  /\ seqLen = 1
  /\ vitLast.fn = "cellIndex"
  /\ vitLast.arg = <<2, 1, 3>>
  /\ vitLast.result = 23

\* C20: S has mutator-state index 0, D has 1 and T(k) has 2 + k, from which
\* tMutStateDupIdx gives k back; isTMutStateIndex(m) holds exactly for
\* 2 <= m <= maxDupLen + 1, so for no m when maxDupLen = 0 (where the limit
\* tMutStateIndex(maxDupLen - 1) wraps around to 1).
C20_MutStateIndices ==
  /\ sMutStateIndex = 0
  /\ dMutStateIndex = 1
  /\ \A k \in 0 .. maxDupLen :
       /\ tMutStateIndex(k) = 2 + k
       /\ tMutStateDupIdx(tMutStateIndex(k)) = k
  /\ \A m \in MutStateArgs :
       isTMutStateIndex(m) <=> (2 <= m /\ m <= maxDupLen + 1)
  /\ maxDupLen = 0 => \A m \in MutStateArgs : ~isTMutStateIndex(m)
  /\ vitLast.fn = "isTMutStateIndex" =>
       (vitLast.result <=> vitLast.arg[1] \in 2 .. (maxDupLen + 1))
  /\ vitLast.fn = "tMutStateIndex" => vitLast.result = 2 + vitLast.arg[1]
  /\ vitLast.fn = "tMutStateDupIdx" => vitLast.result = vitLast.arg[1] - 2

C20_Witness ==
  /\ maxDupLen = 0
  /\ tMutStateIndex(ToPos((maxDupLen - 1) % SizeMod)) = 1
  /\ vitLast.fn = "isTMutStateIndex"
  /\ vitLast.arg = <<2>>
  /\ vitLast.result = FALSE

\* the last operation ran expand() on a hypothesis set, and expand() returned
ExpandReturned ==
  /\ last.op # "none"
  /\ last.status = "ok"
  /\ last.stepped # EmptyMap

C15_ExpandTerminates == last.passes <= NStates + 1

\* the constructor's expand() went round the null cycle 0 -> 1 -> 0 and
\* stopped in its second pass
C15_Witness ==
  /\ last.op = "construct"
  /\ last.status = "ok"
  /\ last.passes = 2
  /\ Len(machine.trans[0]) = 1
  /\ machine.trans[0][1] = [dest |-> 1, in |-> MachineNull, out |-> MachineNull]
  /\ Len(machine.trans[1]) = 1
  /\ machine.trans[1][1] = [dest |-> 0, in |-> MachineNull, out |-> MachineNull]

\* the states one usable null-output transition away from a state of S
NullDests(m, S) ==
  { m.trans[p[1]][p[2]].dest :
      p \in { q \in S \X (1 .. MaxTrans) :
                /\ q[2] <= Len(m.trans[q[1]])
                /\ m.trans[q[1]][q[2]].in \in UsableInputs
                /\ m.trans[q[1]][q[2]].out = MachineNull } }

\* S and the states that chains of usable null-output transitions reach
\* from S
RECURSIVE NullClosure(_, _)
NullClosure(m, S) ==
  LET S1 == S \cup NullDests(m, S)
  IN IF S1 = S THEN S ELSE NullClosure(m, S1)

\* a cycle of usable null-output transitions can be reached from a hypothesis
\* of cur; none of its states emitsOutput, each having a null-output
\* transition
NullCycle(m, cur) ==
  \E s \in NullClosure(m, DOMAIN cur) :
    s \in NullClosure(m, NullDests(m, {s}))

\* C16 as stated: expand() does not return normally when a cycle of usable
\* null-output transitions among non-emitting states can be reached from a
\* hypothesis it starts from.
C16_NullCycleFails ==
  (last.op # "none" /\ last.stepped # EmptyMap
     /\ NullCycle(machine, last.stepped))
    => last.status # "ok"

\* state s has a transition with null output
HasNullOut(m, s) ==
  \E i \in 1 .. Len(m.trans[s]) : m.trans[s][i].out = MachineNull

\* C17: every state of the hypothesis set expand() returns, and of the set
\* the decoder then holds, is an end state or has no null-output transition;
\* so a hypothesis at a state that is no end state and has a null-output
\* transition is dropped, also when the state has emitting transitions too.
C17_ClosureInvariant ==
  /\ ExpandReturned =>
       \A s \in DOMAIN last.expanded :
         isEnd(machine, s) \/ ~HasNullOut(machine, s)
  /\ pc # "aborted" =>
       \A s \in DOMAIN current :
         isEnd(machine, s) \/ ~HasNullOut(machine, s)

\* the start state, no end state, has an emitting and a null-output
\* transition; the constructor has dropped it and kept what its null-output
\* transition leads to
C17_Witness ==
  /\ last.op = "construct"
  /\ last.status = "ok"
  /\ ~isEnd(machine, 0)
  /\ HasNullOut(machine, 0)
  /\ \E i \in 1 .. Len(machine.trans[0]) :
       machine.trans[0][i].out # MachineNull
  /\ 0 \notin DOMAIN current
  /\ current # EmptyMap

\* the output symbols the decoder has been given, in order, as decodeSymbol
\* received them
RECURSIVE ObservedFrom(_)
ObservedFrom(cs) ==
  IF cs = <<>> THEN <<>>
  ELSE (IF Head(cs).op = "decodeString" THEN Upper(Head(cs).arg)
        ELSE Head(cs).arg) \o ObservedFrom(Tail(cs))

Observed == ObservedFrom(calls)

\* the longest of the strings written \o q over the hypotheses (s, q)
RECURSIVE MaxQueueLen(_, _)
MaxQueueLen(cur, S) ==
  IF S = {} THEN 0
  ELSE LET s == CHOOSE x \in S : TRUE
           n == MaxQueueLen(cur, S \ {s})
       IN IF Len(cur[s]) > n THEN Len(cur[s]) ELSE n

\* C18: while the decoder is open and nothing has failed, for every
\* hypothesis (s, q) the symbols written so far followed by q are the non-null
\* input symbols of a path of usable transitions from the start state to s
\* whose outputs are exactly the symbols observed.
C18_CommitSafety ==
  pc = "open" =>
    LET P == PathConfigs(machine, Observed, UsableInputs,
                         Len(written) + MaxQueueLen(current, DOMAIN current),
                         {<<startState(machine), 0, <<>>>>})
    IN \A s \in DOMAIN current :
         <<s, Len(Observed), written \o current[s]>> \in P

\* something has been written and a hypothesis still has symbols queued
C18_Witness ==
  /\ pc = "open"
  /\ written # <<>>
  /\ \E s \in DOMAIN current : current[s] # <<>>

\* the last operation was a close(), explicit or the destructor's, of a
\* decoder closed before
SecondClose == last.op \in {"close", "destroy"} /\ ClosedEarlier

\* C19: a close() of a decoder that has been closed, the destructor's
\* included, finds the hypothesis set empty and leaves it empty, does not run
\* expand(), writes nothing, warns of nothing and raises no error.
C19_CloseIdempotent ==
  SecondClose =>
    /\ last.status = "ok"
    /\ pc \in {"closed", "destroyed"}
    /\ last.pre = EmptyMap
    /\ current = EmptyMap
    /\ last.passes = 0
    /\ written = last.preWritten
    /\ ~last.warned

\* the destructor after a close() that flushed a queue
C19_Witness ==
  /\ SecondClose
  /\ last.op = "destroy"
  /\ Len(calls) = 2
  /\ written # <<>>
  /\ written = last.preWritten

====
